---- MODULE Spec2Model ----
(***************************************************************************)
(* Model of the Audius Solana command line client (js_client).             *)
(*                                                                         *)
(* One run of the process executes one command of index.js.  The two      *)
(* commands that matter are send-message (validateSignature) and          *)
(* create-and-verify-message (createAndVerifyMessage).  Both are async     *)
(* functions with two suspension points: the account lookup                *)
(* (getAccountInfo) and the submission (sendAndConfirmTransaction).  Each  *)
(* action below is the code that runs between two suspension points.       *)
(*                                                                         *)
(* Bytes are integers 0..255, buffers are sequences of bytes (index 1 of   *)
(* a sequence is offset 0 of the buffer).  Command line strings are        *)
(* sequences of Unicode code points; Buffer.from(string) is the UTF-8      *)
(* encoding.  keccak256 and secp256k1 are external libraries: they are     *)
(* modelled as deterministic functions of their inputs with the right      *)
(* output sizes, not as the real cryptography.                             *)
(***************************************************************************)
EXTENDS Integers, Sequences, FiniteSets, TLC

(***************************************************************************)
(* Bounds of the model.                                                    *)
(***************************************************************************)
MaxMsgLen == 12
MaxFieldLen == 2
MaxRecordSeed == 2
MaxKey == 2

(***************************************************************************)
(* Program constants.                                                      *)
(***************************************************************************)
SIGNER_GROUP_SIZE == 33
VALID_SIGNER_SIZE == 53

\* A 32-byte account key whose bytes are all b.
KeyBytes(b) == [i \in 1..32 |-> b]

AUDIUS_PROGRAM == KeyBytes(201)
CREATE_AND_VERIFY_PROGRAM == KeyBytes(202)
INSTRUCTIONS_PROGRAM == KeyBytes(203)
feePayer == KeyBytes(231)

\* Program id of the Secp256k1 signature check of the ledger.
SECP256K1_PROGRAM == KeyBytes(204)

(***************************************************************************)
(* Inputs.                                                                 *)
(***************************************************************************)
\* Code points the command line strings are made of: "hello", and a string
\* with a 1-byte, a 2-byte and a 3-byte UTF-8 character.
Alphabets == << <<104, 101, 108, 108, 111>>, <<104, 233, 8364>> >>

StrOf(a, n) == [i \in 1..n |-> Alphabets[a][((i - 1) % Len(Alphabets[a])) + 1]]

\* Message lengths (in characters): every small length, and the lengths
\* around the one-byte and two-byte limits of the length slot.
BoundaryLens == {127, 128, 255, 256, 257, 300}
MsgLens == (0..MaxMsgLen) \cup BoundaryLens

Messages == {StrOf(a, n) : a \in 1..Len(Alphabets), n \in MsgLens}
FieldStrings == {StrOf(a, n) : a \in 1..Len(Alphabets), n \in 0..MaxFieldLen}

\* Private keys as scalars; 0 is not a valid secp256k1 secret key.
PrivateKeys == 0..MaxKey

\* The validSigner argument: a base58 key, or a string that is not one.
ValidSignerArgs == {"base58", "notBase58"}

\* Account data the ledger may hold under the valid-signer key.
RecordLens == {0, 1, SIGNER_GROUP_SIZE - 1, SIGNER_GROUP_SIZE, VALID_SIGNER_SIZE}
RecordOf(seed, len) == [i \in 1..len |-> (seed * 50 + i) % 256]
Records == {RecordOf(s, l) : s \in 1..MaxRecordSeed, l \in RecordLens}

Null == [kind |-> "null", data |-> <<>>]
AccountInfos == {Null} \cup {[kind |-> "account", data |-> d] : d \in Records}

(***************************************************************************)
(* Library behaviour used by the client.                                   *)
(***************************************************************************)
\* UTF-8 encoding of one code point (Buffer.from(string)).
Utf8Char(c) ==
  IF c < 128 THEN <<c>>
  ELSE IF c < 2048 THEN <<192 + (c \div 64), 128 + (c % 64)>>
  ELSE <<224 + (c \div 4096), 128 + ((c \div 64) % 64), 128 + (c % 64)>>

\* UTF-8 encoding of the characters lo..hi of a string.
RECURSIVE Utf8Range(_, _, _)
Utf8Range(s, lo, hi) ==
  IF lo > hi THEN <<>>
  ELSE IF lo = hi THEN Utf8Char(s[lo])
  ELSE LET mid == (lo + hi) \div 2
       IN Utf8Range(s, lo, mid) \o Utf8Range(s, mid + 1, hi)

\* Buffer.from(string): the UTF-8 encoding of the string.
Utf8(s) == Utf8Range(s, 1, Len(s))

\* Sum of the bytes lo..hi of a buffer.
RECURSIVE SumRange(_, _, _)
SumRange(b, lo, hi) ==
  IF lo > hi THEN 0
  ELSE IF lo = hi THEN b[lo]
  ELSE LET mid == (lo + hi) \div 2
       IN SumRange(b, lo, mid) + SumRange(b, mid + 1, hi)

\* keccak256: a 32-byte digest that depends on every byte and on the length.
keccak256(b) ==
  LET sum == SumRange(b, 1, Len(b))
  IN [i \in 1..32 |-> (sum + i * (Len(b) + 1)) % 256]

\* secp256k1.publicKeyCreate(privKey, false): 65-byte uncompressed point.
publicKeyCreate(k) == [i \in 1..65 |-> IF i = 1 THEN 4 ELSE (k * i) % 256]

\* secp256k1.ecdsaSign(hash, privKey): 64-byte signature and recovery id.
ecdsaSign(hash, k) ==
  [signature |-> [i \in 1..64 |-> (hash[((i - 1) % 32) + 1] + k * i) % 256],
   recid |-> (hash[1] + k) % 2]

\* new solanaWeb3.PublicKey(bytes): the bytes as a big-endian number, stored
\* on 32 bytes (shorter inputs are padded with leading zeros).
PublicKeyFromBytes(b) == [i \in 1..(32 - Len(b)) |-> 0] \o b

\* new solanaWeb3.PublicKey(base58 string).
Base58Decode(s) == KeyBytes(77)

\* Array.prototype.slice(start, end) on a byte array.
Slice(b, start, end) ==
  SubSeq(b, start + 1, IF end < Len(b) THEN end ELSE Len(b))

\* Variant of Splice that overwrites instead of inserting
\* (splice(offset, ins.length, ...ins)).
Splice_Overwrite(b, offset, ins) ==
  SubSeq(b, 1, offset) \o ins \o SubSeq(b, offset + Len(ins) + 1, Len(b))

\* Array.prototype.splice(offset, 0, ...ins).
Splice(b, offset, ins) ==
  SubSeq(b, 1, offset) \o ins \o SubSeq(b, offset + 1, Len(b))

\* borsh: u32 little-endian.
WriteU32(n) ==
  <<n % 256, (n \div 256) % 256, (n \div 65536) % 256, (n \div 16777216) % 256>>

\* borsh: string = u32 byte length, then the UTF-8 bytes.
WriteString(s) == WriteU32(Len(Utf8(s))) \o Utf8(s)

\* Variant of IndexOf that counts from 1.
RECURSIVE IndexOf_OneBased(_, _)
IndexOf_OneBased(values, name) ==
  IF values = <<>> THEN 1
  ELSE IF Head(values) = name THEN 1
  ELSE 1 + IndexOf_OneBased(Tail(values), name)

\* 0-based index of a variant name in the ordered variant list of an enum.
RECURSIVE IndexOf(_, _)
IndexOf(values, name) ==
  IF values = <<>> THEN 0
  ELSE IF Head(values) = name THEN 0
  ELSE 1 + IndexOf(Tail(values), name)

\* borsh: enum = one tag byte (index of the chosen variant), then the variant.
SerializeEnum(values, choose, body) == <<IndexOf(values, choose)>> \o body


\* DataView.setInt8(0, v): one byte, two's complement.
SetInt8(v) == <<v % 256>>

\* DataView.setInt16(0, v): two bytes, two's complement, most significant
\* byte first (no littleEndian argument is passed).
SetInt16(v) == <<(v \div 256) % 256, v % 256>>

(***************************************************************************)
(* validateSignature: the pure steps.                                      *)
(***************************************************************************)
\* Variant of signerGroupOf that keeps the version byte (slice(0, 32)).
signerGroupOf_FromVersion(data) == PublicKeyFromBytes(Slice(data, 0, 32))

\* The signer group key taken out of the fetched account data.
signerGroupOf(data) == PublicKeyFromBytes(Slice(data, 1, 33))

\* Variant order of the instruction enum of the Audius program.
AudiusVariants ==
  <<"initSignerGroup", "initValidSigner", "clearValidSigner", "instruction">>

\* Variant order of the instruction enum of the create-and-verify program.
CreateAndVerifyVariants == <<"instruction">>

\* borsh.serialize(instructionSchema, instructionData) in validateSignature:
\* tag, signature [64], recovery_id u8, message [msg.length].
SerializeSignatureData(sig, m) ==
  SerializeEnum(AudiusVariants, "instruction",
                sig.signature \o <<sig.recid>> \o m)

\* The 4-byte length buffer.
lenBufferOf(n) ==
  IF n < 256 THEN SetInt8(n) \o <<0, 0, 0>>
  ELSE SetInt16(n) \o <<0, 0>>

\* The instruction data after the length was spliced in.
serializedInstructionArrayOf(serialized, m) ==
  Splice(serialized, 66, lenBufferOf(Len(m)))

\* Variant of secpInstructionOf that is given the digest as the message.
secpInstructionOf_Digest(pubKey, m, sig) ==
  [programId |-> SECP256K1_PROGRAM, publicKey |-> pubKey,
   message |-> keccak256(m),
   signature |-> sig.signature, recoveryId |-> sig.recid]

\* Secp256k1Program.createInstructionWithPublicKey(params).
secpInstructionOf(pubKey, m, sig) ==
  [programId |-> SECP256K1_PROGRAM, publicKey |-> pubKey, message |-> m,
   signature |-> sig.signature, recoveryId |-> sig.recid]

ReadOnly(k) == [pubkey |-> k, isSigner |-> FALSE, isWritable |-> FALSE]

\* The instruction for the Audius program.
AudiusInstructionOf(validSignerPubK, group, data) ==
  [programId |-> AUDIUS_PROGRAM,
   keys |-> <<ReadOnly(validSignerPubK), ReadOnly(group),
              ReadOnly(INSTRUCTIONS_PROGRAM)>>,
   data |-> data]

(***************************************************************************)
(* createAndVerifyMessage: the pure steps.                                 *)
(***************************************************************************)
\* borsh.serialize(trackDataSchema, trackData).
SerializeTrackData(t) ==
  WriteString(t.user_id) \o WriteString(t.track_id) \o WriteString(t.source)

\* borsh.serialize(instructionSchema, instructionData) in
\* createAndVerifyMessage: tag, track_data, signature [64], recovery_id u8.
SerializeInstructionArgs(t, sig) ==
  SerializeEnum(CreateAndVerifyVariants, "instruction",
                SerializeTrackData(t) \o sig.signature \o <<sig.recid>>)

\* The instruction for the create-and-verify program.
CreateAndVerifyInstructionOf(validSignerPubK, group, data) ==
  [programId |-> CREATE_AND_VERIFY_PROGRAM,
   keys |-> <<ReadOnly(validSignerPubK), ReadOnly(group),
              ReadOnly(AUDIUS_PROGRAM), ReadOnly(INSTRUCTIONS_PROGRAM)>>,
   data |-> data]

(***************************************************************************)
(* State.                                                                  *)
(***************************************************************************)
VARIABLES
  pc,          \* where the process is
  cmd,         \* the command that was run
  args,        \* its arguments
  accInfo,     \* result of getAccountInfo
  signerGroup, \* the key built from the account data
  hashInput,   \* the bytes handed to keccak256
  sigObj,      \* result of ecdsaSign
  serializedInstructionArgs, \* result of borsh.serialize of the envelope
  transaction, \* the instructions added to the transaction
  submitted,   \* what was handed to sendAndConfirmTransaction
  netLog,      \* calls made on devnetConnection and their outcomes
  stdout,      \* lines written by console.log
  error        \* the exception the command ended with

vars == <<pc, cmd, args, accInfo, signerGroup, hashInput, sigObj,
          serializedInstructionArgs, transaction, submitted, netLog,
          stdout, error>>

\* accInfo before getAccountInfo returned.
NotFetched == [kind |-> "none", data |-> <<>>]
NoSig == [signature |-> <<>>, recid |-> 0]
TxSignature == "txSignature"

Init ==
  /\ pc = "idle"
  /\ cmd = "none"
  /\ args = [validSigner |-> "none"]
  /\ accInfo = NotFetched
  /\ signerGroup = <<>>
  /\ hashInput = <<>>
  /\ sigObj = NoSig
  /\ serializedInstructionArgs = <<>>
  /\ transaction = <<>>
  /\ submitted = <<>>
  /\ netLog = <<>>
  /\ stdout = <<>>
  /\ error = "none"

\* Variant of Reject that starts the command over after an error.
Reject_Retry(e) == pc' = "idle" /\ error' = e

\* Variant of Reject that swallows the error: the promise is fulfilled.
Reject_Swallow(e) == pc' = "resolved" /\ error' = e

\* The async function throws: its promise is rejected with an error of class e.
Reject(e) == pc' = "rejected" /\ error' = e


\* Variant of TransactionAdd that puts the instruction first.
TransactionAdd_Prepend(tx, instruction) == <<instruction>> \o tx

\* transaction.add(instruction).
TransactionAdd(tx, instruction) == Append(tx, instruction)

\* The call sendAndConfirmTransaction(devnetConnection, transaction, [feePayer]).
SendAndConfirmCall(tx) == [transaction |-> tx, signers |-> <<feePayer>>]

\* console.log("Signature: ", signature).
SignatureLine(signature) == <<"Signature: ", signature>>

(***************************************************************************)
(* validateSignature.                                                      *)
(***************************************************************************)
\* Lines 45-49: up to the await of getAccountInfo.
ValidateSignatureStart(validSigner, privateKey, message) ==
  /\ pc = "idle"
  /\ cmd' = "send-message"
  /\ args' = [validSigner |-> validSigner, privateKey |-> privateKey,
              message |-> message]
  /\ IF privateKey = 0 \/ validSigner = "notBase58"
       THEN /\ Reject("Error")
            /\ UNCHANGED netLog
       ELSE /\ pc' = "validateSignature:getAccountInfo"
            /\ netLog' = Append(netLog, "getAccountInfo")
            /\ UNCHANGED error
  /\ UNCHANGED <<accInfo, signerGroup, hashInput, sigObj,
                 serializedInstructionArgs, transaction, submitted, stdout>>

\* Lines 49-130: from the result of getAccountInfo up to the await of
\* sendAndConfirmTransaction.
ValidateSignatureAfterLookup(result) ==
  /\ pc = "validateSignature:getAccountInfo"
  /\ IF result.kind = "rejected"
       THEN /\ Reject("Error")
            /\ netLog' = Append(netLog, "getAccountInfo:failed")
            /\ UNCHANGED <<accInfo, signerGroup, hashInput, sigObj,
                           serializedInstructionArgs, transaction, submitted>>
       ELSE IF result.kind = "null"
       THEN \* accInfo.data on null
            /\ Reject("TypeError")
            /\ accInfo' = result
            /\ netLog' = Append(netLog, "getAccountInfo:returned")
            /\ UNCHANGED <<signerGroup, hashInput, sigObj,
                           serializedInstructionArgs, transaction, submitted>>
       ELSE LET privKey == args.privateKey
                pubKey == publicKeyCreate(privKey)
                validSignerPubK == Base58Decode(args.validSigner)
                group == signerGroupOf(result.data)
                msg == Utf8(args.message)
                msg_hash == keccak256(msg)
                sig == ecdsaSign(msg_hash, privKey)
                serialized == SerializeSignatureData(sig, msg)
                serializedInstructionArray ==
                  serializedInstructionArrayOf(serialized, msg)
                secpInstruction == secpInstructionOf(pubKey, msg, sig)
                tx == TransactionAdd(
                        TransactionAdd(<<>>, secpInstruction),
                        AudiusInstructionOf(validSignerPubK, group,
                                            serializedInstructionArray))
            IN /\ accInfo' = result
               /\ signerGroup' = group
               /\ hashInput' = msg
               /\ sigObj' = sig
               /\ serializedInstructionArgs' = serialized
               /\ transaction' = tx
               /\ submitted' = Append(submitted, SendAndConfirmCall(tx))
               /\ netLog' = netLog \o <<"getAccountInfo:returned",
                                        "sendAndConfirmTransaction">>
               /\ pc' = "validateSignature:sendAndConfirmTransaction"
               /\ UNCHANGED error
  /\ UNCHANGED <<cmd, args, stdout>>

\* Lines 130-137: from the result of sendAndConfirmTransaction to the end.
ValidateSignatureAfterSubmit(ok) ==
  /\ pc = "validateSignature:sendAndConfirmTransaction"
  /\ IF ok
       THEN /\ stdout' = Append(stdout, SignatureLine(TxSignature))
            /\ netLog' = Append(netLog, "sendAndConfirmTransaction:returned")
            /\ pc' = "resolved"
            /\ UNCHANGED error
       ELSE /\ Reject("Error")
            /\ netLog' = Append(netLog, "sendAndConfirmTransaction:failed")
            /\ UNCHANGED stdout
  /\ UNCHANGED <<cmd, args, accInfo, signerGroup, hashInput, sigObj,
                 serializedInstructionArgs, transaction, submitted>>

(***************************************************************************)
(* createAndVerifyMessage.                                                 *)
(***************************************************************************)
\* Lines 146-150: up to the await of getAccountInfo.
CreateAndVerifyMessageStart(validSigner, privateKey, userId, trackId, source) ==
  /\ pc = "idle"
  /\ cmd' = "create-and-verify-message"
  /\ args' = [validSigner |-> validSigner, privateKey |-> privateKey,
              userId |-> userId, trackId |-> trackId, source |-> source]
  /\ IF privateKey = 0 \/ validSigner = "notBase58"
       THEN /\ Reject("Error")
            /\ UNCHANGED netLog
       ELSE /\ pc' = "createAndVerifyMessage:getAccountInfo"
            /\ netLog' = Append(netLog, "getAccountInfo")
            /\ UNCHANGED error
  /\ UNCHANGED <<accInfo, signerGroup, hashInput, sigObj,
                 serializedInstructionArgs, transaction, submitted, stdout>>

\* Lines 150-252: from the result of getAccountInfo up to the await of
\* sendAndConfirmTransaction.
CreateAndVerifyMessageAfterLookup(result) ==
  /\ pc = "createAndVerifyMessage:getAccountInfo"
  /\ IF result.kind = "rejected"
       THEN /\ Reject("Error")
            /\ netLog' = Append(netLog, "getAccountInfo:failed")
            /\ UNCHANGED <<accInfo, signerGroup, hashInput, sigObj,
                           serializedInstructionArgs, transaction, submitted>>
       ELSE IF result.kind = "null"
       THEN \* accInfo.data on null
            /\ Reject("TypeError")
            /\ accInfo' = result
            /\ netLog' = Append(netLog, "getAccountInfo:returned")
            /\ UNCHANGED <<signerGroup, hashInput, sigObj,
                           serializedInstructionArgs, transaction, submitted>>
       ELSE LET privKey == args.privateKey
                pubKey == publicKeyCreate(privKey)
                validSignerPubK == Base58Decode(args.validSigner)
                group == signerGroupOf(result.data)
                trackData == [user_id |-> args.userId,
                              track_id |-> args.trackId,
                              source |-> args.source]
                serializedTrackData == SerializeTrackData(trackData)
                msg_hash == keccak256(serializedTrackData)
                sig == ecdsaSign(msg_hash, privKey)
                serialized == SerializeInstructionArgs(trackData, sig)
                secpInstruction ==
                  secpInstructionOf(pubKey, serializedTrackData, sig)
                tx == TransactionAdd(
                        TransactionAdd(<<>>, secpInstruction),
                        CreateAndVerifyInstructionOf(validSignerPubK, group,
                                                     serialized))
            IN /\ accInfo' = result
               /\ signerGroup' = group
               /\ hashInput' = serializedTrackData
               /\ sigObj' = sig
               /\ serializedInstructionArgs' = serialized
               /\ transaction' = tx
               /\ submitted' = Append(submitted, SendAndConfirmCall(tx))
               /\ netLog' = netLog \o <<"getAccountInfo:returned",
                                        "sendAndConfirmTransaction">>
               /\ pc' = "createAndVerifyMessage:sendAndConfirmTransaction"
               /\ UNCHANGED error
  /\ UNCHANGED <<cmd, args, stdout>>

\* Lines 252-259: from the result of sendAndConfirmTransaction to the end.
CreateAndVerifyMessageAfterSubmit(ok) ==
  /\ pc = "createAndVerifyMessage:sendAndConfirmTransaction"
  /\ IF ok
       THEN /\ stdout' = Append(stdout, SignatureLine(TxSignature))
            /\ netLog' = Append(netLog, "sendAndConfirmTransaction:returned")
            /\ pc' = "resolved"
            /\ UNCHANGED error
       ELSE /\ Reject("Error")
            /\ netLog' = Append(netLog, "sendAndConfirmTransaction:failed")
            /\ UNCHANGED stdout
  /\ UNCHANGED <<cmd, args, accInfo, signerGroup, hashInput, sigObj,
                 serializedInstructionArgs, transaction, submitted>>

(***************************************************************************)
(* index.js: the callbacks run when the command's promise is fulfilled.    *)
(***************************************************************************)
SendMessageLine == <<"Signature was verified successfully and message sent">>
CreateAndVerifyLine == <<"Message was constructed, signed and verified">>

SendMessageThen ==
  /\ pc = "resolved"
  /\ cmd = "send-message"
  /\ stdout' = Append(stdout, SendMessageLine)
  /\ pc' = "done"
  /\ UNCHANGED <<cmd, args, accInfo, signerGroup, hashInput, sigObj,
                 serializedInstructionArgs, transaction, submitted, netLog,
                 error>>

CreateAndVerifyMessageThen ==
  /\ pc = "resolved"
  /\ cmd = "create-and-verify-message"
  /\ stdout' = Append(stdout, CreateAndVerifyLine)
  /\ pc' = "done"
  /\ UNCHANGED <<cmd, args, accInfo, signerGroup, hashInput, sigObj,
                 serializedInstructionArgs, transaction, submitted, netLog,
                 error>>

\* create-signer-group and create-valid-signer call functions that
\* audius_instructions.js does not export: the call throws a TypeError.
UndefinedCommand(name) ==
  /\ pc = "idle"
  /\ cmd' = name
  /\ pc' = "crashed"
  /\ error' = "TypeError"
  /\ UNCHANGED <<args, accInfo, signerGroup, hashInput, sigObj,
                 serializedInstructionArgs, transaction, submitted, netLog,
                 stdout>>

\* getAccountInfo returns an account, returns null, or fails.
RpcFailure == [kind |-> "rejected", data |-> <<>>]
LookupResults == {RpcFailure} \cup AccountInfos

Next ==
  \/ \E v \in ValidSignerArgs, k \in PrivateKeys, m \in Messages :
       ValidateSignatureStart(v, k, m)
  \/ \E r \in LookupResults : ValidateSignatureAfterLookup(r)
  \/ \E ok \in BOOLEAN : ValidateSignatureAfterSubmit(ok)
  \/ \E v \in ValidSignerArgs, k \in PrivateKeys,
        u \in FieldStrings, t \in FieldStrings, s \in FieldStrings :
       CreateAndVerifyMessageStart(v, k, u, t, s)
  \/ \E r \in LookupResults : CreateAndVerifyMessageAfterLookup(r)
  \/ \E ok \in BOOLEAN : CreateAndVerifyMessageAfterSubmit(ok)
  \/ SendMessageThen
  \/ CreateAndVerifyMessageThen
  \/ \E name \in {"create-signer-group", "create-valid-signer"} :
       UndefinedCommand(name)

Spec == Init /\ [][Next]_vars


(***************************************************************************)
(* Properties.                                                             *)
(***************************************************************************)
IsValidateSignature == cmd = "send-message"
IsCreateAndVerifyMessage == cmd = "create-and-verify-message"

\* A transaction was assembled by one of the two functions.
Assembled == transaction # <<>>

\* The bytes of the message argument of validateSignature.
msgBytes == Utf8(args.message)

\* The instruction data of the program instruction.
programData == transaction[2].data

\* Number of occurrences of an event in a log.
Count(log, e) == Cardinality({i \in 1..Len(log) : log[i] = e})

\* Positions of an event in a log.
Positions(log, e) == {i \in 1..Len(log) : log[i] = e}

\* C1: in validateSignature the 4-byte length slot of the instruction data
\* is [n, 0, 0, 0] when the message length n is below 256, and otherwise n
\* as a 2-byte little-endian value followed by two zero bytes.
C1_LengthSlotLittleEndian ==
  (IsValidateSignature /\ Assembled) =>
    LET n == Len(msgBytes)
        slot == SubSeq(programData, 67, 70)
    IN slot = IF n < 256 THEN <<n, 0, 0, 0>>
              ELSE <<n % 256, (n \div 256) % 256, 0, 0>>

\* C2 as stated: for a 53-byte record laid out as version, 20-byte address,
\* 32-byte group, the second account reference of the program instruction is
\* the group field (bytes 21..52).
C2_GroupFieldExtracted ==
  (Assembled /\ Len(accInfo.data) = VALID_SIGNER_SIZE) =>
    transaction[2].keys[2].pubkey = SubSeq(accInfo.data, 22, 53)

\* C2 amended: for a 53-byte record the second account reference of the
\* program instruction is the 32 bytes that follow the version byte (bytes
\* 1..32 of the record).
C2_BytesAfterVersionExtracted ==
  (Assembled /\ Len(accInfo.data) = VALID_SIGNER_SIZE) =>
    /\ signerGroup = SubSeq(accInfo.data, 2, 33)
    /\ transaction[2].keys[2].pubkey = SubSeq(accInfo.data, 2, 33)

C2_Witness ==
  /\ Assembled
  /\ submitted # <<>>
  /\ Len(accInfo.data) = VALID_SIGNER_SIZE

\* C3: every transaction handed to sendAndConfirmTransaction holds exactly
\* two instructions, the Secp256k1 check first and the program instruction
\* second, and is signed by the fee payer only.
C3_TwoInstructionsInOrder ==
  \A i \in 1..Len(submitted) :
    LET call == submitted[i]
    IN /\ Len(call.transaction) = 2
       /\ call.transaction[1].programId = SECP256K1_PROGRAM
       /\ call.transaction[2].programId =
            (IF IsValidateSignature THEN AUDIUS_PROGRAM
             ELSE CREATE_AND_VERIFY_PROGRAM)
       /\ call.signers = <<feePayer>>

C3_Witness ==
  /\ Len(submitted) = 1
  /\ pc = "done"

\* C4: in one invocation getAccountInfo is issued at most once and
\* sendAndConfirmTransaction at most once, the submission is issued only
\* after the lookup returned an account, and nothing is issued after a
\* lookup or a submission failed.
C4_LookupThenSubmitOnce ==
  /\ Count(netLog, "getAccountInfo") <= 1
  /\ Count(netLog, "sendAndConfirmTransaction") <= 1
  /\ Len(submitted) = Count(netLog, "sendAndConfirmTransaction")
  /\ \A i \in Positions(netLog, "sendAndConfirmTransaction") :
       /\ \E j \in 1..(i - 1) : netLog[j] = "getAccountInfo:returned"
       /\ accInfo.kind = "account"
  /\ \A i \in Positions(netLog, "getAccountInfo:failed") : i = Len(netLog)
  /\ \A i \in Positions(netLog, "sendAndConfirmTransaction:failed") :
       i = Len(netLog)
  /\ accInfo.kind = "null" =>
       netLog = <<"getAccountInfo", "getAccountInfo:returned">>

C4_Witness ==
  /\ pc = "rejected"
  /\ netLog = <<"getAccountInfo", "getAccountInfo:returned",
                "sendAndConfirmTransaction",
                "sendAndConfirmTransaction:failed">>

\* C5: when the lookup returns null the command fails with the typed error
\* AccountNotFound and nothing is submitted.
C5_AccountNotFoundTyped ==
  accInfo.kind = "null" =>
    /\ error = "AccountNotFound"
    /\ submitted = <<>>

\* C6: when the fetched account data is shorter than 33 bytes the command
\* fails with MalformedRecord, and no transaction is assembled or submitted.
C6_ShortRecordRejected ==
  (accInfo.kind = "account" /\ Len(accInfo.data) < SIGNER_GROUP_SIZE) =>
    /\ error = "MalformedRecord"
    /\ transaction = <<>>
    /\ submitted = <<>>

\* C7: the signature line is printed exactly when sendAndConfirmTransaction
\* returned; after any failure nothing is printed; and the success line of
\* the command is printed only after the signature line.
C7_SignaturePrintedIffConfirmed ==
  LET sigLines == Positions(stdout, SignatureLine(TxSignature))
      okLines == Positions(stdout, SendMessageLine)
                   \cup Positions(stdout, CreateAndVerifyLine)
  IN /\ (sigLines # {}) <=>
          (Count(netLog, "sendAndConfirmTransaction:returned") = 1)
     /\ (error # "none") => (stdout = <<>>)
     /\ (pc \in {"rejected", "crashed"}) => (stdout = <<>>)
     /\ \A i \in okLines : \E j \in sigLines : j < i
     /\ Cardinality(sigLines) <= 1
     /\ Cardinality(okLines) <= 1

C7_Witness ==
  /\ pc = "done"
  /\ Len(stdout) = 2
  /\ stdout[1] = SignatureLine(TxSignature)

\* C8: the first byte of the program instruction data is 3 in
\* validateSignature and 0 in createAndVerifyMessage.
C8_EnumTag ==
  Assembled =>
    /\ IsValidateSignature => programData[1] = 3
    /\ IsCreateAndVerifyMessage => programData[1] = 0

C8_Witness ==
  /\ Assembled
  /\ IsValidateSignature
  /\ Len(msgBytes) > 0

\* C9: in validateSignature the length patch inserts 4 bytes at offset 66
\* and changes nothing else: the data is n + 70 bytes long, bytes 0..65 are
\* those of the serialized envelope (tag, signature, recovery id) and the
\* bytes from offset 70 on are the n message bytes in order.
C9_PatchInsertsFourBytes ==
  (IsValidateSignature /\ Assembled) =>
    LET n == Len(msgBytes)
    IN /\ Len(serializedInstructionArgs) = n + 66
       /\ Len(programData) = n + 70
       /\ SubSeq(programData, 1, 66) = SubSeq(serializedInstructionArgs, 1, 66)
       /\ SubSeq(programData, 2, 65) = sigObj.signature
       /\ programData[66] = sigObj.recid
       /\ SubSeq(programData, 71, n + 70) = msgBytes
       /\ SubSeq(serializedInstructionArgs, 67, n + 66) = msgBytes

\* The message "hello": 71 bytes before the patch, 75 after.
C9_Witness ==
  /\ IsValidateSignature
  /\ Assembled
  /\ args.message = <<104, 101, 108, 108, 111>>
  /\ Len(serializedInstructionArgs) = 71
  /\ Len(programData) = 75

\* C10: the message of the Secp256k1 check instruction is the byte string
\* whose digest was signed (the raw message, respectively the serialized
\* TrackData), and the signature and recovery id in the program instruction
\* data are those of the check instruction.
C10_CheckedBytesAreSignedBytes ==
  Assembled =>
    LET check == transaction[1]
        signed == IF IsValidateSignature THEN msgBytes
                  ELSE SerializeTrackData([user_id |-> args.userId,
                                           track_id |-> args.trackId,
                                           source |-> args.source])
        sigAt == IF IsValidateSignature THEN 1 ELSE 1 + Len(signed)
    IN /\ hashInput = signed
       /\ check.message = hashInput
       /\ sigObj = ecdsaSign(keccak256(hashInput), args.privateKey)
       /\ check.signature = sigObj.signature
       /\ check.recoveryId = sigObj.recid
       /\ SubSeq(programData, sigAt + 1, sigAt + 64) = check.signature
       /\ programData[sigAt + 65] = check.recoveryId

C10_Witness ==
  /\ Assembled
  /\ IsCreateAndVerifyMessage
  /\ Len(args.userId) > 0
  /\ Len(hashInput) > 12

====
